---- MODULE Spec2Model ----
(***************************************************************************)
(* OLM converter: the conversion job (app.py, upload_olm and               *)
(* process_olm_file), the archive parser (olm_parser.py, OLMParser) and    *)
(* the format encoders (format_converters.py).                             *)
(*                                                                         *)
(* Text is a sequence of one-character strings.  None, the empty dict and  *)
(* other Python values are named where they are modelled.  The clock       *)
(* (datetime.now()) is not part of the state: export timestamps are left   *)
(* out of the encoders' outputs.                                           *)
(***************************************************************************)
EXTENDS Integers, Sequences, FiniteSets, TLC

VARIABLES
    path,               \* job -> what lies at file_path: [kind, files]
    requested,          \* job -> the format identifiers the caller asked for
    pc,                 \* job -> position of the job
    output_formats,     \* job -> output_formats argument of process_olm_file
    temp_dir,           \* job -> parser.temp_dir (0 is None)
    emails,             \* job -> parser.emails, the list parse returns
    fallback_ran,       \* job -> _parse_alternative_formats was called
    idx,                \* job -> position of the encoding loop (1-based)
    output_files,       \* job -> output_files of process_olm_file
    attempted,          \* job -> formats whose loop iteration was entered
    exc,                \* job -> message of the exception in flight ("" none)
    conversion_status,  \* job -> conversion_status[task_id]
    uploads,            \* jobs whose uploaded file exists in UPLOAD_DIR
    dirs,               \* staging directories that exist
    stage,              \* staging directory -> its files, in traversal order
    outdir              \* job -> artifacts in OUTPUT_DIR (format -> content)

vars == <<path, requested, pc, output_formats, temp_dir, emails, fallback_ran,
          idx, output_files, attempted, exc, conversion_status, uploads, dirs,
          stage, outdir>>

----------------------------------------------------------------------------
(* Bounds *)

MaxFiles == 2       \* files in an archive
MaxFormats == 2     \* identifiers in a request
NumDirs == 2        \* names mkdtemp can hand out

Jobs == {1, 2}
DirIds == 1 .. NumDirs
None == 0

BSeq(S, n) == UNION {[1 .. m -> S] : m \in 0 .. n}

Range(s) == {s[i] : i \in DOMAIN s}

----------------------------------------------------------------------------
(* Text helpers *)

\* The pieces of ss in order, joined by halves.
RECURSIVE ConcatAll(_)
ConcatAll(ss) ==
    IF Len(ss) = 0 THEN <<>>
    ELSE IF Len(ss) = 1 THEN ss[1]
    ELSE LET half == Len(ss) \div 2
         IN  ConcatAll(SubSeq(ss, 1, half)) \o ConcatAll(SubSeq(ss, half + 1, Len(ss)))

\* str.replace(old, new) for a one-character old
Replace(text, old, new) ==
    ConcatAll([i \in 1 .. Len(text) |-> IF text[i] = old THEN new ELSE <<text[i]>>])

\* sep.join(names)
RECURSIVE Join(_, _)
Join(sep, names) ==
    IF names = <<>> THEN <<>>
    ELSE IF Len(names) = 1 THEN names[1]
    ELSE names[1] \o sep \o Join(sep, Tail(names))

----------------------------------------------------------------------------
(* str.lower() and the substring test *)

UpperCase == <<"A", "B", "C", "D", "E", "F", "G", "H", "I", "J", "K", "L", "M",
               "N", "O", "P", "Q", "R", "S", "T", "U", "V", "W", "X", "Y", "Z">>
LowerCase == <<"a", "b", "c", "d", "e", "f", "g", "h", "i", "j", "k", "l", "m",
               "n", "o", "p", "q", "r", "s", "t", "u", "v", "w", "x", "y", "z">>

LowerChar(c) ==
    IF \E i \in 1 .. 26 : UpperCase[i] = c
    THEN LowerCase[CHOOSE i \in 1 .. 26 : UpperCase[i] = c]
    ELSE c

Lower(text) == [i \in 1 .. Len(text) |-> LowerChar(text[i])]

\* needle in text
Contains(text, needle) ==
    \E i \in 0 .. Len(text) - Len(needle) :
        \A k \in 1 .. Len(needle) : text[i + k] = needle[k]

----------------------------------------------------------------------------
(* The archive *)

\* The text every message of job j's archive carries: two archives differ.
Text(j) == IF j = 1 THEN <<"H", "i", "\n", "1">> ELSE <<"H", "i", "\n", "2">>

\* A header is <<>> when the message has none, <<value>> otherwise.
NoHeader == <<>>
Header(value) == <<value>>

GoodDate == <<"Mon", ",", " 1 Jan 2024 10:00:00 +0000">>
BadDate == <<"yesterday">>

\* A part of a multipart message, as msg.walk() yields it.
Part(ctype, disposition, payload, filename) ==
    [ctype |-> ctype, disposition |-> disposition, payload |-> payload,
     filename |-> filename]

\* A .eml file.  ok: BytesParser and the header lookups do not raise.
\* parts is empty for a message that is not multipart.
EmlFile(name, ok, subject, date, payload, parts) ==
    [ext |-> "eml", name |-> name, ok |-> ok, subject |-> subject,
     from |-> Header(<<"a", "@", "x">>), to |-> NoHeader, cc |-> NoHeader,
     date |-> date, payload |-> payload, parts |-> parts]

\* A .xml file.  wellformed: ET.parse does not raise.  nodes: root.iter(),
\* each node a tag and a text (<<>> is None or empty).
Node(tag, text) == [tag |-> tag, text |-> text]

XmlFile(name, wellformed, nodes) ==
    [ext |-> "xml", name |-> name, wellformed |-> wellformed, nodes |-> nodes]

\* A .txt file.  len is len(content); content stands for the whole file.
TxtFile(name, len, content) ==
    [ext |-> "txt", name |-> name, len |-> len, content |-> content]

NameMsg1 == <<"m", "s", "g", "1">>
NameMsg2 == <<"m", "s", "g", "2">>
NameBad == <<"b", "a", "d">>
NameMessageUpper == <<"M", "e", "s", "s", "a", "g", "e", "_", "1">>
NameMessageLower == <<"m", "e", "s", "s", "a", "g", "e", "_", "2">>
NameMessageEmpty == <<"m", "e", "s", "s", "a", "g", "e", "_", "3">>
NameCategories == <<"C", "a", "t", "e", "g", "o", "r", "i", "e", "s">>
NameNotes == <<"n", "o", "t", "e", "s">>
NameShort == <<"s", "h", "o", "r", "t">>

TagSubject == <<"S", "u", "b", "j", "e", "c", "t">>
TagBody == <<"b", "o", "d", "y">>
TagFrom == <<"f", "r", "o", "m">>
TagOther == <<"i", "d">>

PhotoJpg == <<"p", ".", "j">>

\* Single part, subject and date present.
Msg1(j) == EmlFile(NameMsg1, TRUE, Header(<<"H", "e", "y">>), Header(GoodDate), Text(j), <<>>)
\* Multipart, no subject, unparsable date, one body part and one attachment.
Msg2(j) == EmlFile(NameMsg2, TRUE, NoHeader, Header(BadDate), <<>>,
                   <<Part("multipart/mixed", <<>>, <<>>, <<>>),
                     Part("text/plain", <<"inline">>, Text(j), <<>>),
                     Part("image/jpeg", <<"attachment", "filename">>, <<"x">>, PhotoJpg)>>)
\* Raises while being parsed.
BadMsg(j) == EmlFile(NameBad, FALSE, NoHeader, NoHeader, Text(j), <<>>)
\* Message markup with a subject and a body.
Xml1(j) == XmlFile(NameMessageUpper, TRUE,
                   <<Node(TagOther, <<>>), Node(TagSubject, <<"H", "e", "y">>),
                     Node(TagFrom, <<"a", "@", "x">>), Node(TagBody, Text(j))>>)
\* Message markup with a body and no subject.
Xml2(j) == XmlFile(NameMessageLower, TRUE, <<Node(TagBody, Text(j))>>)
\* Message markup that carries no message data, or is malformed.
Xml3(j) == XmlFile(NameMessageEmpty, FALSE, <<Node(TagBody, Text(j))>>)
\* Markup whose name does not say "message".
Xml4(j) == XmlFile(NameCategories, TRUE, <<Node(TagSubject, Text(j))>>)
Notes(j) == TxtFile(NameNotes, 51, Text(j))
Short(j) == TxtFile(NameShort, 50, Text(j))

FileKinds(j) == {Msg1(j), Msg2(j), BadMsg(j), Xml1(j), Xml2(j), Xml3(j), Xml4(j),
                 Notes(j), Short(j)}

\* The archives whose parsing is explored in full, and a few picked ones.
Archives(j) == BSeq(FileKinds(j), MaxFiles)

SomeArchives(j) == {<<>>, <<Msg1(j)>>, <<BadMsg(j), Notes(j)>>}

\* What lies at file_path: a zip container, a directory, a regular file that
\* is no zip container, or nothing.
PathKinds == {"zip", "dir", "file", "missing"}

Formats == {"csv", "txt", "json", "pdf", "md", "xls"}

----------------------------------------------------------------------------
(* OLMParser: the message parsers *)

Get(header, default) == IF header = NoHeader THEN default ELSE header[1]

NoSubject == <<"(No Subject)">>

\* date_parsed: <<>> is None.
NoDate == <<>>
ParseDateToDatetime(date) == <<"datetime", date>>
DateParses(date) == date = GoodDate

DateParsed(date) ==
    IF date # <<>> /\ DateParses(date) THEN ParseDateToDatetime(date) ELSE NoDate

\* "attachment" in content_disposition; a disposition is its words in order.
HasAttachment(disposition) ==
    \E i \in 1 .. Len(disposition) : disposition[i] = "attachment"

IsBodyPart(part) ==
    part.ctype = "text/plain" /\ ~HasAttachment(part.disposition)

\* The walk over the parts: a qualifying part with a payload sets the body, a
\* part marked attachment with a file name adds the name.
RECURSIVE WalkParts(_, _)
WalkParts(parts, data) ==
    IF parts = <<>> THEN data
    ELSE LET part == Head(parts)
             next == IF IsBodyPart(part)
                     THEN IF part.payload # <<>>
                          THEN [data EXCEPT !.body = part.payload]
                          ELSE data
                     ELSE IF HasAttachment(part.disposition) /\ part.filename # <<>>
                          THEN [data EXCEPT !.attachments = Append(@, part.filename)]
                          ELSE data
         IN  WalkParts(Tail(parts), next)

\* _parse_eml_file, for a file it reads without raising.
ParseEmlFile(f) ==
    LET date == Get(f.date, <<>>)
        data == [subject |-> Get(f.subject, NoSubject),
                 from |-> Get(f.from, <<>>),
                 to |-> Get(f.to, <<>>),
                 cc |-> Get(f.cc, <<>>),
                 date |-> date,
                 body |-> <<>>,
                 attachments |-> <<>>,
                 date_parsed |-> DateParsed(date)]
    IN  IF f.parts # <<>>
        THEN WalkParts(f.parts, data)
        ELSE [data EXCEPT !.body = f.payload]

\* The tier-1 loop without the try around a file: the first file that raises
\* ends the loop.
RECURSIVE ParseEmlFilesAbort(_, _)
ParseEmlFilesAbort(files, acc) ==
    IF files = <<>> THEN acc
    ELSE LET f == Head(files)
         IN  IF f.ext = "eml" /\ ~f.ok THEN acc
             ELSE ParseEmlFilesAbort(Tail(files),
                      IF f.ext = "eml" THEN Append(acc, ParseEmlFile(f)) ELSE acc)

\* The tier-1 loop: a file that raises is skipped, the others are appended.
RECURSIVE ParseEmlFiles(_, _)
ParseEmlFiles(files, acc) ==
    IF files = <<>> THEN acc
    ELSE LET f == Head(files)
         IN  ParseEmlFiles(Tail(files),
                 IF f.ext = "eml" /\ f.ok THEN Append(acc, ParseEmlFile(f)) ELSE acc)

KwSubject == <<"s", "u", "b", "j", "e", "c", "t">>
KwFrom == <<"f", "r", "o", "m">>
KwTo == <<"t", "o">>
KwDate == <<"d", "a", "t", "e">>
KwBody == <<"b", "o", "d", "y">>

\* One node feeding every field whose keyword its tag contains.
XmlAssignEvery(data, node) ==
    LET tag_lower == Lower(node.tag)
        has(kw) == Contains(tag_lower, kw) /\ node.text # <<>>
    IN  [subject |-> IF has(KwSubject) THEN node.text ELSE data.subject,
         from |-> IF has(KwFrom) THEN node.text ELSE data.from,
         to |-> IF has(KwTo) THEN node.text ELSE data.to,
         cc |-> data.cc,
         date |-> IF has(KwDate) THEN node.text ELSE data.date,
         body |-> IF has(KwBody) THEN node.text ELSE data.body,
         attachments |-> data.attachments]

\* The if/elif chain over one node.
XmlAssign(data, node) ==
    LET tag_lower == Lower(node.tag)
        has(kw) == Contains(tag_lower, kw) /\ node.text # <<>>
    IN  IF has(KwSubject) THEN [data EXCEPT !.subject = node.text]
        ELSE IF has(KwFrom) THEN [data EXCEPT !.from = node.text]
        ELSE IF has(KwTo) THEN [data EXCEPT !.to = node.text]
        ELSE IF has(KwDate) THEN [data EXCEPT !.date = node.text]
        ELSE IF has(KwBody) THEN [data EXCEPT !.body = node.text]
        ELSE data

RECURSIVE XmlWalk(_, _)
XmlWalk(nodes, data) ==
    IF nodes = <<>> THEN data ELSE XmlWalk(Tail(nodes), XmlAssign(data, Head(nodes)))

EmptyXmlData ==
    [subject |-> <<>>, from |-> <<>>, to |-> <<>>, cc |-> <<>>, date |-> <<>>,
     body |-> <<>>, attachments |-> <<>>]

\* _parse_xml_message: <<>> is None, <<record>> a record.
ParseXmlMessage(f) ==
    IF ~f.wellformed THEN <<>>
    ELSE LET data == XmlWalk(f.nodes, EmptyXmlData)
         IN  IF data.subject # <<>> \/ data.body # <<>> THEN <<data>> ELSE <<>>

KwMessage == <<"m", "e", "s", "s", "a", "g", "e">>

IsMessageXml(f) == f.ext = "xml" /\ Contains(Lower(f.name), KwMessage)

\* The tier-2 loop.
RECURSIVE ParseXmlFiles(_, _)
ParseXmlFiles(files, acc) ==
    IF files = <<>> THEN acc
    ELSE LET f == Head(files)
         IN  ParseXmlFiles(Tail(files),
                 IF IsMessageXml(f) THEN acc \o ParseXmlMessage(f) ELSE acc)

MinTextLength == 50

TextRecord(f) ==
    [subject |-> <<"Message from ">> \o f.name, from |-> <<>>, to |-> <<>>,
     cc |-> <<>>, date |-> <<>>, body |-> f.content, attachments |-> <<>>]

\* _parse_alternative_formats
RECURSIVE ParseAlternativeFormats(_, _)
ParseAlternativeFormats(files, acc) ==
    IF files = <<>> THEN acc
    ELSE LET f == Head(files)
         IN  ParseAlternativeFormats(Tail(files),
                 IF f.ext = "txt" /\ f.len > MinTextLength
                 THEN Append(acc, TextRecord(f)) ELSE acc)

\* The fallback run whatever the tiers before it found.
NoEmailsFoundAlways(es) == TRUE

\* if not self.emails
NoEmailsFound(es) == es = <<>>

----------------------------------------------------------------------------
(* The format encoders.  Each yields input, the list it was given as it *)
(* stands after the call, and out, what it wrote.                        *)

CsvHeader == <<"Date", "From", "To", "CC", "Subject", "Body", "Attachments">>

\* The row with the body as it stands in the record.
CsvRowRawBody(email) ==
    <<email.date, email.from, email.to, email.cc, email.subject, email.body,
      Join(<<",", " ">>, email.attachments)>>

CsvRow(email) ==
    <<email.date, email.from, email.to, email.cc, email.subject,
      Replace(Replace(email.body, "\n", <<" ">>), "\r", <<>>),
      Join(<<",", " ">>, email.attachments)>>

\* csv.writer, default dialect: a field holding the delimiter, the quote
\* character or a character of the line terminator is quoted, its quotes
\* doubled; fields are joined by commas and the line ends "\r\n".
CsvSpecial == {",", "\"", "\n", "\r"}

CsvNeedsQuote(field) == \E i \in 1 .. Len(field) : field[i] \in CsvSpecial

CsvField(field) ==
    IF CsvNeedsQuote(field)
    THEN <<"\"">> \o Replace(field, "\"", <<"\"", "\"">>) \o <<"\"">>
    ELSE field

CsvLine(fields) ==
    Join(<<",">>, [i \in 1 .. Len(fields) |-> CsvField(fields[i])]) \o <<"\r", "\n">>

CsvHeaderRow == [i \in 1 .. Len(CsvHeader) |-> <<CsvHeader[i]>>]

ConvertToCsv(es) ==
    [input |-> es,
     out |-> CsvLine(CsvHeaderRow)
             \o ConcatAll([i \in 1 .. Len(es) |-> CsvLine(CsvRow(es[i]))])]

\* One block of the plain-text export; cc and attachments are <<>> when the
\* line is left out, <<line>> otherwise.
TxtBlock(i, email) ==
    [number |-> i, date |-> email.date, from |-> email.from, to |-> email.to,
     cc |-> IF email.cc # <<>> THEN <<email.cc>> ELSE <<>>,
     subject |-> email.subject,
     attachments |-> IF email.attachments # <<>>
                     THEN <<Join(<<",", " ">>, email.attachments)>> ELSE <<>>,
     body |-> email.body]

ConvertToTxt(es) ==
    [input |-> es,
     out |-> [total |-> Len(es), blocks |-> [i \in 1 .. Len(es) |-> TxtBlock(i, es[i])]]]

IsoFormat(dt) == <<"iso", dt[2]>>

\* email.copy() with date_parsed rendered
JsonCopy(email) ==
    IF "date_parsed" \in DOMAIN email /\ email.date_parsed # NoDate
    THEN [email EXCEPT !.date_parsed = IsoFormat(@)]
    ELSE email

\* json.dump of a string without its backslashes escaped.
JsonEscapeCharPlain(c) ==
    IF c = "\"" THEN <<"\\", "\"">>
    ELSE IF c = "\n" THEN <<"\\", "n">>
    ELSE IF c = "\r" THEN <<"\\", "r">>
    ELSE <<c>>

\* json.dump of one character of a string (ensure_ascii=False).
JsonEscapeChar(c) ==
    IF c = "\"" THEN <<"\\", "\"">>
    ELSE IF c = "\\" THEN <<"\\", "\\">>
    ELSE IF c = "\n" THEN <<"\\", "n">>
    ELSE IF c = "\r" THEN <<"\\", "r">>
    ELSE <<c>>

\* json.dump of a string: the literal, quotes included.
JsonString(text) ==
    <<"\"">> \o ConcatAll([i \in 1 .. Len(text) |-> JsonEscapeChar(text[i])]) \o <<"\"">>

JsonNull == <<"null">>

\* json.dump of the value under a key of a copy.
JsonValue(key, value) ==
    IF key = "attachments" THEN [i \in 1 .. Len(value) |-> JsonString(value[i])]
    ELSE IF key = "date_parsed"
         THEN IF value = NoDate THEN JsonNull ELSE JsonString(<<value[1]>> \o value[2])
    ELSE JsonString(value)

JsonObject(copy) == [key \in DOMAIN copy |-> JsonValue(key, copy[key])]

\* json.dump of the envelope (export_date left out).
JsonDump(copies) ==
    [total_emails |-> Len(copies),
     emails |-> [i \in 1 .. Len(copies) |-> JsonObject(copies[i])]]

\* The json encoder rendering date_parsed in the records it was given.
ConvertToJsonInPlace(es) ==
    [input |-> [i \in 1 .. Len(es) |-> JsonCopy(es[i])],
     out |-> JsonDump([i \in 1 .. Len(es) |-> JsonCopy(es[i])])]

ConvertToJson(es) ==
    [input |-> es,
     out |-> JsonDump([i \in 1 .. Len(es) |-> JsonCopy(es[i])])]

EscapeChar(c) ==
    IF c = "&" THEN <<"&amp;">>
    ELSE IF c = "<" THEN <<"&lt;">>
    ELSE IF c = ">" THEN <<"&gt;">>
    ELSE IF c = "\"" THEN <<"&quot;">>
    ELSE IF c = "'" THEN <<"&#39;">>
    ELSE <<c>>

EscapeHtml(text) == ConcatAll([i \in 1 .. Len(text) |-> EscapeChar(text[i])])

PdfBodyLimit == 5000
TruncationMarker == <<"\n", "\n", "[... Content truncated for PDF ...]">>

\* The body cut from the limit itself on.
PdfBodyAtLimit(body) ==
    LET cut == IF Len(body) >= PdfBodyLimit
               THEN SubSeq(body, 1, PdfBodyLimit) \o TruncationMarker
               ELSE body
    IN  Replace(EscapeHtml(cut), "\n", <<"<br/>">>)

PdfBody(body) ==
    LET cut == IF Len(body) > PdfBodyLimit
               THEN SubSeq(body, 1, PdfBodyLimit) \o TruncationMarker
               ELSE body
    IN  Replace(EscapeHtml(cut), "\n", <<"<br/>">>)

PdfSection(i, n, email) ==
    [number |-> i,
     subject |-> EscapeHtml(email.subject),
     date |-> EscapeHtml(email.date),
     from |-> EscapeHtml(email.from),
     to |-> EscapeHtml(email.to),
     cc |-> IF email.cc # <<>> THEN <<EscapeHtml(email.cc)>> ELSE <<>>,
     attachments |-> IF email.attachments # <<>>
                     THEN <<EscapeHtml(Join(<<",", " ">>, email.attachments))>>
                     ELSE <<>>,
     body |-> PdfBody(email.body),
     page_break |-> i < n]

ConvertToPdf(es) ==
    [input |-> es,
     out |-> [count |-> Len(es),
              sections |-> [i \in 1 .. Len(es) |-> PdfSection(i, Len(es), es[i])]]]

\* The markup encoder: the content of the plain-text export under headings.
ConvertToMd(es) ==
    [input |-> es,
     out |-> [total |-> Len(es), blocks |-> [i \in 1 .. Len(es) |-> TxtBlock(i, es[i])],
              markup |-> TRUE]]

EncoderFormats == {"csv", "txt", "json", "pdf", "md"}

\* The if/elif chain of process_olm_file, for a format that has an encoder.
Encode(fmt, es) ==
    IF fmt = "csv" THEN ConvertToCsv(es)
    ELSE IF fmt = "txt" THEN ConvertToTxt(es)
    ELSE IF fmt = "json" THEN ConvertToJson(es)
    ELSE IF fmt = "pdf" THEN ConvertToPdf(es)
    ELSE ConvertToMd(es)

----------------------------------------------------------------------------
(* upload_olm *)

ValidFormats == {"csv", "txt", "json", "pdf", "md"}
ValidFormatsInTry == {"csv", "txt", "json", "pdf"}

RECURSIVE FilterFormats(_, _)
FilterFormats(fs, valid) ==
    IF fs = <<>> THEN <<>>
    ELSE IF Head(fs) \in valid
         THEN <<Head(fs)>> \o FilterFormats(Tail(fs), valid)
         ELSE FilterFormats(Tail(fs), valid)

\* The list handed to process_olm_file: the second filter reads the request
\* again and replaces the result of the first.
UploadFormats(fs) == FilterFormats(fs, ValidFormatsInTry)

\* The request passes both "No valid output formats specified" checks, the
\* upload is saved and the job is queued; otherwise it is refused (400).
UploadOlm(j) ==
    /\ pc[j] = "new"
    /\ path[j].kind \in {"zip", "file"}
    /\ IF FilterFormats(requested[j], ValidFormats) = <<>>
          \/ UploadFormats(requested[j]) = <<>>
       THEN /\ pc' = [pc EXCEPT ![j] = "rejected"]
            /\ UNCHANGED <<output_formats, uploads>>
       ELSE /\ pc' = [pc EXCEPT ![j] = "queued"]
            /\ output_formats' = [output_formats EXCEPT ![j] = UploadFormats(requested[j])]
            /\ uploads' = uploads \cup {j}
    /\ UNCHANGED <<path, requested, temp_dir, emails, fallback_ran, idx, output_files,
                   attempted, exc, conversion_status, dirs, stage, outdir>>

\* A caller other than upload_olm calls process_olm_file with a path and a
\* list of formats of its own.
DirectCall(j) ==
    /\ pc[j] = "new"
    /\ pc' = [pc EXCEPT ![j] = "queued"]
    /\ output_formats' = [output_formats EXCEPT ![j] = requested[j]]
    /\ uploads' = IF path[j].kind = "missing" THEN uploads ELSE uploads \cup {j}
    /\ UNCHANGED <<path, requested, temp_dir, emails, fallback_ran, idx, output_files,
                   attempted, exc, conversion_status, dirs, stage, outdir>>

----------------------------------------------------------------------------
(* process_olm_file and OLMParser.parse *)

Processing(progress, message) ==
    [status |-> "processing", progress |-> progress, message |-> message]

Error(message) == [status |-> "error", message |-> message]

Completed(n, files) ==
    [status |-> "completed", progress |-> 100,
     message |-> <<"Successfully converted ", n, " emails">>,
     email_count |-> n, files |-> files]

\* Up to the first await: the status is set and the parser constructed.
ProcessStart(j) ==
    /\ pc[j] = "queued"
    /\ conversion_status' =
           [conversion_status EXCEPT ![j] = Processing(20, <<"Parsing emails...">>)]
    /\ temp_dir' = [temp_dir EXCEPT ![j] = None]
    /\ emails' = [emails EXCEPT ![j] = <<>>]
    /\ pc' = [pc EXCEPT ![j] = "parse"]
    /\ UNCHANGED <<path, requested, output_formats, fallback_ran, idx, output_files,
                   attempted, exc, uploads, dirs, stage, outdir>>

\* A staging directory of one fixed name.
MkdtempShared(existing) == CHOOSE d \in DirIds : \A e \in DirIds : d <= e

\* tempfile.mkdtemp(): a directory that does not exist yet.
Mkdtemp(existing) ==
    CHOOSE d \in DirIds \ existing : \A e \in DirIds \ existing : d <= e

ParseMkdtemp(j) ==
    /\ pc[j] = "parse"
    /\ DirIds \ dirs # {}
    /\ LET d == Mkdtemp(dirs)
       IN  /\ temp_dir' = [temp_dir EXCEPT ![j] = d]
           /\ dirs' = dirs \cup {d}
           /\ stage' = [stage EXCEPT ![d] = IF d \in dirs THEN @ ELSE <<>>]
    /\ pc' = [pc EXCEPT ![j] = "extract"]
    /\ UNCHANGED <<path, requested, output_formats, emails, fallback_ran, idx,
                   output_files, attempted, exc, conversion_status, uploads, outdir>>

\* zipfile.ZipFile(path, 'r'): the exception it raises, "" when it opens.
ZipOpen(kind) ==
    IF kind = "zip" THEN ""
    ELSE IF kind = "file" THEN "BadZipFile"
    ELSE IF kind = "dir" THEN "IsADirectoryError"
    ELSE "FileNotFoundError"

\* _extract_olm: what is put into the staging directory (copied) and the
\* message of the exception that leaves it (<<>> none).
ExtractResult(p) ==
    LET raised == ZipOpen(p.kind)
    IN  IF raised = "" THEN [copied |-> p.files, error |-> <<>>]
        ELSE IF raised = "BadZipFile"
             THEN IF p.kind = "dir"
                  THEN [copied |-> p.files, error |-> <<>>]
                  ELSE [copied |-> <<>>, error |-> <<"Invalid OLM file format">>]
        ELSE IF raised = "IsADirectoryError"
             THEN [copied |-> <<>>, error |-> <<"[Errno 21] Is a directory">>]
        ELSE [copied |-> <<>>, error |-> <<"[Errno 2] No such file or directory">>]

\* except Exception as e: raise Exception(f"Error parsing OLM file: {str(e)}")
ParseError(message) == <<"Error parsing OLM file: ">> \o message

ExtractOlm(j) ==
    /\ pc[j] = "extract"
    /\ LET r == ExtractResult(path[j])
           d == temp_dir[j]
       IN  IF r.error = <<>>
           THEN /\ stage' = [stage EXCEPT ![d] = @ \o r.copied]
                /\ pc' = [pc EXCEPT ![j] = "tier1"]
                /\ exc' = exc
           ELSE /\ exc' = [exc EXCEPT ![j] = ParseError(r.error)]
                /\ pc' = [pc EXCEPT ![j] = "raised"]
                /\ stage' = stage
    /\ UNCHANGED <<path, requested, output_formats, temp_dir, emails, fallback_ran, idx,
                   output_files, attempted, conversion_status, uploads, dirs, outdir>>

\* rglob over a staging directory that is gone finds nothing.
Staged(j) == IF temp_dir[j] \in dirs THEN stage[temp_dir[j]] ELSE <<>>

ParseTier1(j) ==
    /\ pc[j] = "tier1"
    /\ emails' = [emails EXCEPT ![j] = ParseEmlFiles(Staged(j), @)]
    /\ pc' = [pc EXCEPT ![j] = "tier2"]
    /\ UNCHANGED <<path, requested, output_formats, temp_dir, fallback_ran, idx,
                   output_files, attempted, exc, conversion_status, uploads, dirs,
                   stage, outdir>>

ParseTier2(j) ==
    /\ pc[j] = "tier2"
    /\ emails' = [emails EXCEPT ![j] = ParseXmlFiles(Staged(j), @)]
    /\ pc' = [pc EXCEPT ![j] = "tier3"]
    /\ UNCHANGED <<path, requested, output_formats, temp_dir, fallback_ran, idx,
                   output_files, attempted, exc, conversion_status, uploads, dirs,
                   stage, outdir>>

\* if not self.emails: self._parse_alternative_formats(); return self.emails
ParseFallback(j) ==
    /\ pc[j] = "tier3"
    /\ NoEmailsFound(emails[j])
    /\ emails' = [emails EXCEPT ![j] = ParseAlternativeFormats(Staged(j), @)]
    /\ fallback_ran' = [fallback_ran EXCEPT ![j] = TRUE]
    /\ pc' = [pc EXCEPT ![j] = "parsed"]
    /\ UNCHANGED <<path, requested, output_formats, temp_dir, idx, output_files,
                   attempted, exc, conversion_status, uploads, dirs, stage, outdir>>

ParseReturn(j) ==
    /\ pc[j] = "tier3"
    /\ ~NoEmailsFound(emails[j])
    /\ pc' = [pc EXCEPT ![j] = "parsed"]
    /\ UNCHANGED <<path, requested, output_formats, temp_dir, emails, fallback_ran, idx,
                   output_files, attempted, exc, conversion_status, uploads, dirs,
                   stage, outdir>>

\* The caller without its check for an empty result.
NoEmailsNever(es) == FALSE

\* if not emails
NoEmails(es) == es = <<>>

\* parse returned nothing: the job ends in error, and returns.
JobNoEmails(j) ==
    /\ pc[j] = "parsed"
    /\ NoEmails(emails[j])
    /\ conversion_status' =
           [conversion_status EXCEPT ![j] = Error(<<"No emails found in OLM file">>)]
    /\ pc' = [pc EXCEPT ![j] = "done"]
    /\ UNCHANGED <<path, requested, output_formats, temp_dir, emails, fallback_ran, idx,
                   output_files, attempted, exc, uploads, dirs, stage, outdir>>

Found(n) == Processing(50, <<"Found ", n, " emails. Converting...">>)

\* progress_per_format = 50 / len(output_formats), with no format requested
JobZeroFormats(j) ==
    /\ pc[j] = "parsed"
    /\ ~NoEmails(emails[j])
    /\ Len(output_formats[j]) = 0
    /\ conversion_status' = [conversion_status EXCEPT ![j] = Found(Len(emails[j]))]
    /\ output_files' = [output_files EXCEPT ![j] = <<>>]
    /\ exc' = [exc EXCEPT ![j] = <<"division by zero">>]
    /\ pc' = [pc EXCEPT ![j] = "raised"]
    /\ UNCHANGED <<path, requested, output_formats, temp_dir, emails, fallback_ran, idx,
                   attempted, uploads, dirs, stage, outdir>>

JobEncodeStart(j) ==
    /\ pc[j] = "parsed"
    /\ ~NoEmails(emails[j])
    /\ Len(output_formats[j]) > 0
    /\ conversion_status' = [conversion_status EXCEPT ![j] = Found(Len(emails[j]))]
    /\ output_files' = [output_files EXCEPT ![j] = <<>>]
    /\ idx' = [idx EXCEPT ![j] = 1]
    /\ pc' = [pc EXCEPT ![j] = "encode"]
    /\ UNCHANGED <<path, requested, output_formats, temp_dir, emails, fallback_ran,
                   attempted, exc, uploads, dirs, stage, outdir>>

\* 50 + int((idx + 1) * progress_per_format), i the 1-based position
Progress(i, n) == 50 + (i * 50) \div n

OutputFile(j, fmt) == [format |-> fmt, filename |-> <<j, fmt>>]

\* One iteration of the loop whose encoder writes its artifact.
EncodeWrites(j) ==
    /\ pc[j] = "encode"
    /\ idx[j] <= Len(output_formats[j])
    /\ LET fmt == output_formats[j][idx[j]]
           r == Encode(fmt, emails[j])
       IN  /\ fmt \in EncoderFormats
           /\ attempted' = [attempted EXCEPT ![j] = Append(@, fmt)]
           /\ emails' = [emails EXCEPT ![j] = r.input]
           /\ outdir' = [outdir EXCEPT ![j] = (fmt :> r.out) @@ @]
           /\ output_files' = [output_files EXCEPT ![j] = Append(@, OutputFile(j, fmt))]
    /\ conversion_status' = [conversion_status EXCEPT
           ![j].progress = Progress(idx[j], Len(output_formats[j]))]
    /\ idx' = [idx EXCEPT ![j] = @ + 1]
    /\ UNCHANGED <<path, requested, pc, output_formats, temp_dir, fallback_ran, exc,
                   uploads, dirs, stage>>

\* One iteration of the loop whose encoder raises (the artifact cannot be
\* written): the exception leaves the loop.
EncodeRaises(j) ==
    /\ pc[j] = "encode"
    /\ idx[j] <= Len(output_formats[j])
    /\ output_formats[j][idx[j]] \in EncoderFormats
    /\ attempted' = [attempted EXCEPT ![j] = Append(@, output_formats[j][idx[j]])]
    /\ exc' = [exc EXCEPT ![j] = <<"[Errno 28] No space left on device">>]
    /\ pc' = [pc EXCEPT ![j] = "raised"]
    /\ UNCHANGED <<path, requested, output_formats, temp_dir, emails, fallback_ran, idx,
                   output_files, conversion_status, uploads, dirs, stage, outdir>>

\* One iteration for an identifier no branch of the chain matches: nothing is
\* written and output_path.stat() raises, unless the file is there already.
EncodeUnknown(j) ==
    /\ pc[j] = "encode"
    /\ idx[j] <= Len(output_formats[j])
    /\ LET fmt == output_formats[j][idx[j]]
       IN  /\ fmt \notin EncoderFormats
           /\ attempted' = [attempted EXCEPT ![j] = Append(@, fmt)]
           /\ IF fmt \in DOMAIN outdir[j]
              THEN /\ output_files' =
                          [output_files EXCEPT ![j] = Append(@, OutputFile(j, fmt))]
                   /\ conversion_status' = [conversion_status EXCEPT
                          ![j].progress = Progress(idx[j], Len(output_formats[j]))]
                   /\ idx' = [idx EXCEPT ![j] = @ + 1]
                   /\ UNCHANGED <<exc, pc>>
              ELSE /\ exc' = [exc EXCEPT ![j] = <<"[Errno 2] No such file or directory">>]
                   /\ pc' = [pc EXCEPT ![j] = "raised"]
                   /\ UNCHANGED <<output_files, conversion_status, idx>>
    /\ UNCHANGED <<path, requested, output_formats, temp_dir, emails, fallback_ran,
                   uploads, dirs, stage, outdir>>

\* OLMParser.cleanup: the directories that exist afterwards.
Cleanup(d, existing) ==
    IF d # None /\ d \in existing THEN existing \ {d} ELSE existing

\* The loop is over: the job is completed, the parser cleaned up and the
\* upload removed.
JobCompleted(j) ==
    /\ pc[j] = "encode"
    /\ idx[j] > Len(output_formats[j])
    /\ conversion_status' =
           [conversion_status EXCEPT ![j] = Completed(Len(emails[j]), output_files[j])]
    /\ dirs' = Cleanup(temp_dir[j], dirs)
    /\ stage' = [d \in DirIds |-> IF d \in dirs' THEN stage[d] ELSE <<>>]
    /\ uploads' = uploads \ {j}
    /\ pc' = [pc EXCEPT ![j] = "done"]
    /\ UNCHANGED <<path, requested, output_formats, temp_dir, emails, fallback_ran, idx,
                   output_files, attempted, exc, outdir>>

\* except Exception as e: the job ends in error and the upload is removed
\* (unlink of a directory raises, and leaves it).
JobExcept(j) ==
    /\ pc[j] = "raised"
    /\ conversion_status' = [conversion_status EXCEPT ![j] = Error(exc[j])]
    /\ uploads' = IF path[j].kind = "dir" THEN uploads ELSE uploads \ {j}
    /\ pc' = [pc EXCEPT ![j] = "done"]
    /\ UNCHANGED <<path, requested, output_formats, temp_dir, emails, fallback_ran, idx,
                   output_files, attempted, exc, dirs, stage, outdir>>

----------------------------------------------------------------------------
(* Specifications *)

Requests == BSeq(Formats, MaxFormats)

SomeRequests == {<<>>, <<"csv">>, <<"json", "xls">>, <<"md", "pdf">>}

NoPath == [kind |-> "missing", files |-> <<>>]

NoStatus == [status |-> "none"]

\* What a job is given: every archive with a few requests, and every kind of
\* path and every request with a few archives.
Inputs(j) ==
    ({[kind |-> "zip", files |-> a] : a \in Archives(j)} \X SomeRequests)
    \cup ({[kind |-> k, files |-> a] : k \in PathKinds, a \in SomeArchives(j)}
          \X Requests)

SomeInputs(j) ==
    {[kind |-> k, files |-> a] : k \in {"zip", "file"}, a \in SomeArchives(j)}
    \X SomeRequests

InitWith(p, r, position) ==
    /\ path = p
    /\ requested = r
    /\ pc = position
    /\ output_formats = [j \in Jobs |-> <<>>]
    /\ temp_dir = [j \in Jobs |-> None]
    /\ emails = [j \in Jobs |-> <<>>]
    /\ fallback_ran = [j \in Jobs |-> FALSE]
    /\ idx = [j \in Jobs |-> 0]
    /\ output_files = [j \in Jobs |-> <<>>]
    /\ attempted = [j \in Jobs |-> <<>>]
    /\ exc = [j \in Jobs |-> <<>>]
    /\ conversion_status = [j \in Jobs |-> NoStatus]
    /\ uploads = {}
    /\ dirs = {}
    /\ stage = [d \in DirIds |-> <<>>]
    /\ outdir = [j \in Jobs |-> <<>>]

\* One job.
Init ==
    \E in \in Inputs(1) :
        InitWith([j \in Jobs |-> IF j = 1 THEN in[1] ELSE NoPath],
                 [j \in Jobs |-> IF j = 1 THEN in[2] ELSE <<>>],
                 [j \in Jobs |-> IF j = 1 THEN "new" ELSE "absent"])

\* Two jobs on two archives.
InitTwo ==
    \E in1 \in SomeInputs(1), in2 \in SomeInputs(2) :
        InitWith([j \in Jobs |-> IF j = 1 THEN in1[1] ELSE in2[1]],
                 [j \in Jobs |-> IF j = 1 THEN in1[2] ELSE in2[2]],
                 [j \in Jobs |-> "new"])

Next ==
    \E j \in Jobs :
        \/ UploadOlm(j)
        \/ DirectCall(j)
        \/ ProcessStart(j)
        \/ ParseMkdtemp(j)
        \/ ExtractOlm(j)
        \/ ParseTier1(j)
        \/ ParseTier2(j)
        \/ ParseFallback(j)
        \/ ParseReturn(j)
        \/ JobNoEmails(j)
        \/ JobZeroFormats(j)
        \/ JobEncodeStart(j)
        \/ EncodeWrites(j)
        \/ EncodeRaises(j)
        \/ EncodeUnknown(j)
        \/ JobCompleted(j)
        \/ JobExcept(j)

Spec == Init /\ [][Next]_vars

SpecTwo == InitTwo /\ [][Next]_vars

----------------------------------------------------------------------------
(* What an archive holds, told from its files alone *)

IsParseError(e) == e # <<>> /\ e[1] = "Error parsing OLM file: "

CleanEml(files) == SelectSeq(files, LAMBDA f : f.ext = "eml" /\ f.ok)

EmlCount(files) == Cardinality({i \in DOMAIN files : files[i].ext = "eml"})

FailedCount(files) ==
    Cardinality({i \in DOMAIN files : files[i].ext = "eml" /\ ~files[i].ok})

NoMessageXml(files) == \A i \in DOMAIN files : ~IsMessageXml(files[i])

\* The records of the .eml tier and of the message-.xml tier.
Tier12(files) ==
    [i \in 1 .. Len(CleanEml(files)) |-> ParseEmlFile(CleanEml(files)[i])]
    \o ConcatAll([i \in 1 .. Len(files) |->
                     IF IsMessageXml(files[i]) THEN ParseXmlMessage(files[i]) ELSE <<>>])

BigTxt(files) == SelectSeq(files, LAMBDA f : f.ext = "txt" /\ f.len > MinTextLength)

TextRecords(files) == [i \in 1 .. Len(BigTxt(files)) |-> TextRecord(BigTxt(files)[i])]

\* What parse returns for a container with these files.
Records(files) == IF Tier12(files) # <<>> THEN Tier12(files) ELSE TextRecords(files)

----------------------------------------------------------------------------
(* Claims *)

\* C1: in every terminal state of a job the staging directory that parse
\* created no longer exists.
C1_StagingDeletedAtEnd ==
    \A j \in Jobs : pc[j] = "done" => (temp_dir[j] = None \/ temp_dir[j] \notin dirs)

\* C2: when parse returns, the fallback text parser has run if and only if
\* the .eml tier and the message-.xml tier produced no record, and when they
\* produced one the result is theirs alone: no .txt file adds a record.
C2_FallbackIffTiersEmpty ==
    \A j \in Jobs :
        pc[j] = "parsed" =>
            /\ fallback_ran[j] <=> Tier12(path[j].files) = <<>>
            /\ Tier12(path[j].files) # <<>> => emails[j] = Tier12(path[j].files)

C2_Witness ==
    \E j \in Jobs :
        /\ pc[j] = "parsed"
        /\ path[j].files = <<Msg1(j), Notes(j)>>
        /\ Len(emails[j]) = 1
        /\ ~fallback_ran[j]

\* C3 as stated: for a container with N .eml files, K of them failing, and no
\* message .xml file, parse returns exactly N - K records.
C3_ExactlyNMinusK ==
    \A j \in Jobs :
        (pc[j] = "parsed" /\ NoMessageXml(path[j].files)) =>
            Len(emails[j]) = EmlCount(path[j].files) - FailedCount(path[j].files)

\* C3 amended: for such a container parse does not raise; when at least one
\* .eml file parses cleanly the result is exactly the records of the clean
\* files, each what its file yields alone, in traversal order; when none does
\* the result is the fallback's, one record per .txt file over the threshold.
C3_CleanFilesKept ==
    \A j \in Jobs :
        (path[j].kind = "zip" /\ NoMessageXml(path[j].files)) =>
            /\ ~(pc[j] = "raised" /\ IsParseError(exc[j]))
            /\ pc[j] = "parsed" =>
                   LET clean == CleanEml(path[j].files)
                   IN  IF clean # <<>>
                       THEN emails[j] = [i \in 1 .. Len(clean) |-> ParseEmlFile(clean[i])]
                       ELSE emails[j] = TextRecords(path[j].files)

C3_Witness ==
    \E j \in Jobs :
        /\ pc[j] = "parsed"
        /\ path[j].files = <<BadMsg(j), Msg1(j)>>
        /\ emails[j] = <<ParseEmlFile(Msg1(j))>>

C5_DirectoryIsCopied ==
    \A j \in Jobs :
        (path[j].kind = "dir" /\ pc[j] \in {"tier1", "raised"}) =>
            /\ pc[j] = "tier1"
            /\ stage[temp_dir[j]] = path[j].files

\* C6: once the encoding stage has begun, every requested format is
\* attempted and the job does not end in error because one format failed.
C6_FormatsIsolated ==
    \A j \in Jobs :
        (pc[j] = "done" /\ idx[j] >= 1) =>
            /\ attempted[j] = output_formats[j]
            /\ conversion_status[j].status # "error"

\* C7: with records and no requested format, the job writes nothing, lists
\* no artifact and does not end in error.
C7_ZeroFormatsNoError ==
    \A j \in Jobs :
        (pc[j] = "done" /\ emails[j] # <<>> /\ output_formats[j] = <<>>) =>
            /\ conversion_status[j].status # "error"
            /\ output_files[j] = <<>>
            /\ DOMAIN outdir[j] = {}

\* C8: the artifact list of a completed job has one entry per requested
\* valid identifier, md included, in request order.
C8_OneArtifactPerRequested ==
    \A j \in Jobs :
        conversion_status[j].status = "completed" =>
            [i \in 1 .. Len(conversion_status[j].files) |->
                 conversion_status[j].files[i].format]
            = FilterFormats(requested[j], ValidFormats)

CodeEncoders == {"csv", "txt", "json", "pdf"}

\* C9: after any runs of the csv, txt, json and pdf encoders the record
\* sequence is the one parse returned, and what each of them wrote is what it
\* writes for that sequence when run alone.
C9_EncodersOnlyRead ==
    \A j \in Jobs :
        (idx[j] >= 1 /\ Range(attempted[j]) \subseteq CodeEncoders) =>
            /\ emails[j] = Records(path[j].files)
            /\ \A fmt \in DOMAIN outdir[j] :
                   outdir[j][fmt] = Encode(fmt, Records(path[j].files)).out

C9_Witness ==
    \E j \in Jobs :
        /\ conversion_status[j].status = "completed"
        /\ DOMAIN outdir[j] = {"json", "csv"}
        /\ emails[j][1].date_parsed = ParseDateToDatetime(GoodDate)
        /\ outdir[j]["json"].emails[1].date_parsed = JsonString(<<"iso">> \o GoodDate)

Holding(j) ==
    pc[j] \in {"extract", "tier1", "tier2", "tier3", "parsed", "encode", "raised"}

\* C10: with two jobs running, the records parse returns to a job are those
\* of its own archive, two jobs never hold the same staging directory, and
\* the directory a job holds exists until the job itself removes it.
C10_JobsShareNothing ==
    \A j \in Jobs :
        /\ pc[j] = "parsed" => emails[j] = Records(path[j].files)
        /\ Holding(j) =>
               /\ temp_dir[j] \in dirs
               /\ \A k \in Jobs \ {j} : Holding(k) => temp_dir[k] # temp_dir[j]

C10_Witness ==
    /\ conversion_status[1].status = "completed"
    /\ temp_dir[1] \notin dirs
    /\ pc[2] = "parsed"
    /\ emails[2] = <<ParseEmlFile(Msg1(2))>>
    /\ temp_dir[2] \in dirs

----------------------------------------------------------------------------
(* Jobs on messages whose text holds the characters the encoders escape *)

MaxBody == 2        \* characters in a body

BodyChars == {"a", ",", "\"", "\n", "\r", "\\"}

SubjectQuoted == <<"R", ",", "\"">>

\* Attachment names, one of them with a comma, one with a quote.
NameLists == {<<>>, <<<<"a", ",", "b">>>>, <<<<"p">>, <<"q", "\"">>>>}

\* A multipart message with one plain-text part and the named attachments.
TextMsg(body, names) ==
    EmlFile(NameMsg1, TRUE, Header(SubjectQuoted), Header(GoodDate), <<>>,
            <<Part("multipart/mixed", <<>>, <<>>, <<>>),
              Part("text/plain", <<"inline">>, body, <<>>)>>
            \o [i \in 1 .. Len(names) |->
                   Part("application/octet-stream", <<"attachment">>, <<"x">>, names[i])])

EncodeInputs(j) ==
    ({[kind |-> "zip", files |-> <<TextMsg(b, n)>>] :
          b \in BSeq(BodyChars, MaxBody), n \in NameLists}
     \X {<<"json">>, <<"csv">>, <<"csv", "json">>})
    \cup SomeInputs(j)

\* One job on one of the inputs.
InitFrom(inputs) ==
    \E in \in inputs :
        InitWith([j \in Jobs |-> IF j = 1 THEN in[1] ELSE NoPath],
                 [j \in Jobs |-> IF j = 1 THEN in[2] ELSE <<>>],
                 [j \in Jobs |-> IF j = 1 THEN "new" ELSE "absent"])

InitEncode == InitFrom(EncodeInputs(1))

SpecEncode == InitEncode /\ [][Next]_vars

----------------------------------------------------------------------------
(* Reading the json artifact back *)

\* json.load of the inside of a string literal.
RECURSIVE JsonUnescape(_)
JsonUnescape(chars) ==
    IF chars = <<>> THEN <<>>
    ELSE IF Head(chars) = "\\" /\ Len(chars) >= 2
         THEN <<IF chars[2] = "n" THEN "\n" ELSE IF chars[2] = "r" THEN "\r" ELSE chars[2]>>
              \o JsonUnescape(Tail(Tail(chars)))
         ELSE <<Head(chars)>> \o JsonUnescape(Tail(chars))

JsonLoadString(literal) == JsonUnescape(SubSeq(literal, 2, Len(literal) - 1))

JsonLoadValue(key, value) ==
    IF key = "attachments" THEN [i \in 1 .. Len(value) |-> JsonLoadString(value[i])]
    ELSE IF key = "date_parsed" /\ value = JsonNull THEN NoDate
    ELSE JsonLoadString(value)

JsonLoad(doc) ==
    [total_emails |-> doc.total_emails,
     emails |-> [i \in 1 .. Len(doc.emails) |->
                    [key \in DOMAIN doc.emails[i] |->
                         JsonLoadValue(key, doc.emails[i][key])]]]

KeptKeys == {"subject", "from", "to", "cc", "body", "attachments"}

----------------------------------------------------------------------------
(* Reading the csv artifact back *)

\* csv.reader over the characters from position i on.  mode is "plain"
\* outside quotes, "quoted" inside and "closing" after a quote met inside.
RECURSIVE CsvParse(_, _, _, _, _, _)
CsvParse(text, i, mode, field, row, rows) ==
    IF i > Len(text)
    THEN IF field = <<>> /\ row = <<>> THEN rows ELSE Append(rows, Append(row, field))
    ELSE LET c == text[i]
         IN  IF mode = "quoted"
             THEN IF c = "\""
                  THEN CsvParse(text, i + 1, "closing", field, row, rows)
                  ELSE CsvParse(text, i + 1, "quoted", Append(field, c), row, rows)
             ELSE IF c = "\"" /\ mode = "closing"
                  THEN CsvParse(text, i + 1, "quoted", Append(field, c), row, rows)
             ELSE IF c = "\"" /\ field = <<>>
                  THEN CsvParse(text, i + 1, "quoted", field, row, rows)
             ELSE IF c = ","
                  THEN CsvParse(text, i + 1, "plain", <<>>, Append(row, field), rows)
             ELSE IF c = "\r" /\ i < Len(text) /\ text[i + 1] = "\n"
                  THEN CsvParse(text, i + 1, mode, field, row, rows)
             ELSE IF c = "\n" \/ c = "\r"
                  THEN CsvParse(text, i + 1, "plain", <<>>, <<>>,
                                Append(rows, Append(row, field)))
             ELSE CsvParse(text, i + 1, "plain", Append(field, c), row, rows)

CsvRead(text) == CsvParse(text, 1, "plain", <<>>, <<>>, <<>>)

----------------------------------------------------------------------------
(* Long bodies in the pdf export *)

\* How far below and above the limit of the pdf export the bodies reach.
MaxOver == 1000

BodyLengths == {0, PdfBodyLimit - MaxOver, PdfBodyLimit, PdfBodyLimit + 1,
                PdfBodyLimit + MaxOver}

\* A body of n characters: line breaks and markup among letters, and the
\* characters on both sides of the limit different from the rest.
LongBody(n) ==
    [i \in 1 .. n |-> IF i = PdfBodyLimit THEN "x"
                      ELSE IF i = PdfBodyLimit + 1 THEN "y"
                      ELSE IF i % 1000 = 1 THEN "\n"
                      ELSE IF i % 1000 = 2 THEN "<"
                      ELSE "a"]

PdfInputs(j) ==
    ({[kind |-> "zip", files |-> <<TextMsg(LongBody(n), <<>>)>>] : n \in BodyLengths}
     \X {<<"pdf">>, <<"pdf", "txt">>}) \cup SomeInputs(j)

InitPdf == InitFrom(PdfInputs(1))

SpecPdf == InitPdf /\ [][Next]_vars

\* What the paragraph shows for these characters of a body.
Shown(text) == Replace(EscapeHtml(text), "\n", <<"<br/>">>)

MarkerLine == "[... Content truncated for PDF ...]"

\* C13: the pdf export cuts a body exactly when it is longer than 5000
\* characters: the paragraph then shows the first 5000 characters followed by
\* two line breaks and the truncation marker; a body of 5000 characters or
\* fewer is shown whole and without the marker.
C13_PdfTruncation ==
    \A j \in Jobs :
        "pdf" \in DOMAIN outdir[j] =>
            \A i \in 1 .. Len(emails[j]) :
                LET body == emails[j][i].body
                    shown == outdir[j]["pdf"].sections[i].body
                IN  IF Len(body) > 5000
                    THEN shown = Shown(SubSeq(body, 1, 5000))
                                     \o <<"<br/>", "<br/>", MarkerLine>>
                    ELSE /\ shown = Shown(body)
                         /\ \A k \in 1 .. Len(shown) : shown[k] # MarkerLine

C13_Witness ==
    \E j \in Jobs :
        /\ "pdf" \in DOMAIN outdir[j]
        /\ Len(emails[j][1].body) = PdfBodyLimit + MaxOver
        /\ Len(outdir[j]["pdf"].sections[1].body) = PdfBodyLimit + 3
        /\ outdir[j]["pdf"].sections[1].body[PdfBodyLimit] = "x"
        /\ outdir[j]["pdf"].sections[1].body[PdfBodyLimit + 3] = MarkerLine

----------------------------------------------------------------------------
(* The subject of a record *)

\* C14: in every record that parse returns, whichever of the three parsers
\* made it, subject is not the empty string: a source without a subject
\* gives the sentinel "(No Subject)".
C14_SubjectNeverEmpty ==
    \A j \in Jobs :
        pc[j] = "parsed" =>
            \A i \in 1 .. Len(emails[j]) : emails[j][i].subject # <<>>

----------------------------------------------------------------------------
(* The body of a multipart message *)

MaxParts == 3

\* The parts a multipart message is made of: two plain-text parts with
\* different payloads, a plain-text part with no payload, a plain-text
\* attachment and an image attachment.
PartKinds ==
    {Part("text/plain", <<>>, <<"A">>, <<>>),
     Part("text/plain", <<"inline">>, <<"B">>, <<>>),
     Part("text/plain", <<>>, <<>>, <<>>),
     Part("text/plain", <<"attachment", "filename">>, <<"C">>, <<"c", ".", "t", "x", "t">>),
     Part("image/jpeg", <<"attachment", "filename">>, <<"x">>, PhotoJpg)}

\* A multipart message: walk() yields the container, then its parts in order.
MimeMsg(parts) ==
    EmlFile(NameMsg1, TRUE, Header(<<"H", "e", "y">>), Header(GoodDate), <<>>,
            <<Part("multipart/mixed", <<>>, <<>>, <<>>)>> \o parts)

MimeInputs(j) ==
    ({[kind |-> "zip", files |-> <<MimeMsg(ps)>>] : ps \in BSeq(PartKinds, MaxParts)}
     \X {<<"json">>}) \cup SomeInputs(j)

InitMime == InitFrom(MimeInputs(1))

SpecMime == InitMime /\ [][Next]_vars

\* The payload of the first part that is plain text, is not an attachment and
\* has a payload.
FirstBodyPayload(parts) ==
    LET qualifying == {i \in 1 .. Len(parts) :
                           /\ parts[i].ctype = "text/plain"
                           /\ parts[i].payload # <<>>
                           /\ \A k \in 1 .. Len(parts[i].disposition) :
                                  parts[i].disposition[k] # "attachment"}
    IN  IF qualifying = {} THEN <<>>
        ELSE parts[CHOOSE i \in qualifying : \A k \in qualifying : i <= k].payload

\* C15: the body of the record of a multipart message is the payload of the
\* first part, in walk order, that is text/plain and whose disposition does
\* not contain "attachment" (a part without payload counts for nothing); a
\* later such part never replaces it.
C15_FirstBodyPartWins ==
    \A j \in Jobs :
        (/\ pc[j] = "parsed"
         /\ Len(path[j].files) = 1
         /\ path[j].files[1].ext = "eml"
         /\ path[j].files[1].parts # <<>>
         /\ Len(emails[j]) = 1)
            => emails[j][1].body = FirstBodyPayload(path[j].files[1].parts)

----------------------------------------------------------------------------
(* The fields of a markup message *)

MaxNodes == 2

TagTo == <<"T", "o">>
TagDate == <<"d", "a", "t", "e">>
\* A tag that contains two keywords, "to" and "date".
TagStoreDate == <<"S", "t", "o", "r", "e", "D", "a", "t", "e">>

NodeKinds ==
    {Node(tag, text) :
        tag \in {TagSubject, TagFrom, TagTo, TagDate, TagStoreDate, TagBody, TagOther},
        text \in {<<>>, <<"a">>, <<"b">>}}

XmlInputs(j) ==
    ({[kind |-> "zip", files |-> <<XmlFile(NameMessageLower, TRUE, ns)>>] :
          ns \in BSeq(NodeKinds, MaxNodes)}
     \X {<<"json">>}) \cup SomeInputs(j)

InitXml == InitFrom(XmlInputs(1))

SpecXml == InitXml /\ [][Next]_vars

\* Job j has walked the one well-formed markup message of its archive.
WalkedXml(j) ==
    /\ pc[j] = "tier3"
    /\ Len(path[j].files) = 1
    /\ path[j].files[1].ext = "xml"
    /\ path[j].files[1].wellformed
    /\ Contains(Lower(path[j].files[1].name), <<"m", "e", "s", "s", "a", "g", "e">>)

Keywords ==
    <<<<"s", "u", "b", "j", "e", "c", "t">>, <<"f", "r", "o", "m">>, <<"t", "o">>,
      <<"d", "a", "t", "e">>, <<"b", "o", "d", "y">>>>

Last(nodes, chosen) ==
    IF chosen = {} THEN <<>>
    ELSE nodes[CHOOSE i \in chosen : \A k \in chosen : k <= i].text

\* The text of the last node whose tag contains keyword number k.
LastContaining(nodes, k) ==
    Last(nodes, {i \in 1 .. Len(nodes) : Contains(Lower(nodes[i].tag), Keywords[k])})

\* The first keyword, in the order subject, from, to, date, body, that the tag
\* contains; 0 when it contains none.
FirstKeyword(tag) ==
    LET found == {k \in 1 .. Len(Keywords) : Contains(Lower(tag), Keywords[k])}
    IN  IF found = {} THEN 0 ELSE CHOOSE k \in found : \A m \in found : k <= m

\* The text of the last node with a text whose first keyword is number k.
LastFeeding(nodes, k) ==
    Last(nodes, {i \in 1 .. Len(nodes) :
                     nodes[i].text # <<>> /\ FirstKeyword(nodes[i].tag) = k})

FieldsAre(j, value(_, _)) ==
    LET nodes == path[j].files[1].nodes
        subject == value(nodes, 1)
        body == value(nodes, 5)
    IN  IF subject = <<>> /\ body = <<>>
        THEN emails[j] = <<>>
        ELSE /\ Len(emails[j]) = 1
             /\ emails[j][1].subject = subject
             /\ emails[j][1].from = value(nodes, 2)
             /\ emails[j][1].to = value(nodes, 3)
             /\ emails[j][1].date = value(nodes, 4)
             /\ emails[j][1].body = body

\* C16 as stated: after the walk each field holds the text of the last node
\* whose lower-cased tag contains the field's keyword, also when the tag
\* contains another keyword as well, and a record is returned only if the
\* resulting subject or body is non-empty.
C16_LastMatchingNodeWins ==
    \A j \in Jobs : WalkedXml(j) => FieldsAre(j, LastContaining)

\* C16: after the walk each field holds the text of the last node that has a
\* non-empty text and whose lower-cased tag contains the field's keyword and
\* none of the keywords before it in the order subject, from, to, date, body
\* (the field is empty when there is no such node); a record is returned
\* exactly when the resulting subject or body is non-empty.
C16_LastFeedingNodeWins ==
    \A j \in Jobs : WalkedXml(j) => FieldsAre(j, LastFeeding)

C16_Witness ==
    \E j \in Jobs :
        /\ WalkedXml(j)
        /\ path[j].files[1].nodes = <<Node(TagStoreDate, <<"a">>), Node(TagSubject, <<"b">>)>>
        /\ Len(emails[j]) = 1
        /\ emails[j][1].to = <<"a">>
        /\ emails[j][1].date = <<>>
        /\ emails[j][1].subject = <<"b">>

====
